---- MODULE Spec2Model ----
(***************************************************************************)
(* A model of the workflow state management of the multi-agent decision    *)
(* system (multi_agent_decision_system/workflow/state.py), of the entity   *)
(* it validates on creation (data_processing/models.py, Document) and of   *)
(* the LangGraph pipeline assembled by workflow/orchestrator.py from the   *)
(* three agents of agents/.                                                *)
(*                                                                         *)
(* Python values are records tagged with their type (field t).  A call     *)
(* of a Python function is an operator that returns an outcome record:     *)
(* raised = "none" with the returned value in val, or the name of the      *)
(* exception raised with its message in msg.                               *)
(***************************************************************************)
EXTENDS Integers, Sequences, FiniteSets, TLC

VARIABLES
    state,      \* the AgentState the caller holds (NoState before creation)
    arg_state,  \* the state object passed to the last call, as it is after the call
    trace,      \* the calls made on the state API in this session, oldest first
    vt,         \* the last call of validate_state_transition and what it returned
    wf,         \* the dict threaded through the compiled LangGraph workflow
    pc,         \* the node the workflow runs next ("idle" before invoke)
    collab,     \* the collaborator calls made by the workflow run, oldest first
    built,      \* the last entity construction: its class, arguments and outcome
    ran,        \* the agent calls made, oldest first: the dict before, after, and returned
    san         \* the last call of sanitize_text_content and what it returned

vars == <<state, arg_state, trace, vt, wf, pc, collab, built, ran, san>>

---------------------------------------------------------------------------
(* Bounds of the model *)

\* longest uploaded_data list given to create_initial_state
MaxDocs == 2
\* calls made on one state after its creation
MaxCalls == 3
\* documents held by the vector store (similarity_search returns at most these)
MaxStored == 2
\* stages run before which a caller may still ask for a retry
MaxRuns == 3
\* pieces of text in one content given to sanitize_text_content
MaxPieces == 2

---------------------------------------------------------------------------
(* Python values *)

PyStr(s) == [t |-> "str", v |-> s]
PyNone == [t |-> "NoneType", v |-> ""]
PyInt(s) == [t |-> "int", v |-> s]
\* a dict is given by its items, a function from its keys
PyDict(items) == [t |-> "dict", v |-> items]

\* bool(x): None, "", 0, an empty dict and an empty list or tuple are falsy
Truthy(x) ==
    CASE x.t = "NoneType" -> FALSE
      [] x.t = "str" -> x.v # ""
      [] x.t = "int" -> x.v # "0"
      [] x.t = "dict" -> DOMAIN x.v # {}
      [] x.t \in {"list", "tuple"} -> Len(x.items) > 0
      [] OTHER -> TRUE

\* the outcome of a call: a returned value, or an exception with its message
Ok(v) == [raised |-> "none", msg |-> <<>>, val |-> v]
Raise(exc, m) == [raised |-> exc, msg |-> <<m>>]

\* the same for a call that is handed a mutable object: input is that object
\* as the call leaves it
OkOn(inp, v) == [raised |-> "none", msg |-> <<>>, val |-> v, input |-> inp]
RaiseOn(inp, exc, m) == [raised |-> exc, msg |-> m, input |-> inp]

---------------------------------------------------------------------------
(* Document (data_processing/models.py) *)

\* Document.__post_init__: content a non-empty str, metadata a dict
Document(content, metadata) ==
    IF ~Truthy(content) \/ content.t # "str"
    THEN Raise("ValueError", "Document content must be a non-empty string")
    ELSE IF metadata.t # "dict"
    THEN Raise("ValueError", "Document metadata must be a dictionary")
    ELSE Ok([cls |-> "Document", content |-> content, metadata |-> metadata])

ContentInputs == {PyStr("Test 1"), PyStr("Test 2"), PyStr(""), PyNone}
MetadataInputs == {PyDict([source |-> "test1.txt"]), PyStr("not a dict")}

\* the Document instances that exist: the constructions that did not raise
Documents ==
    {Document(c, m).val : <<c, m>> \in
        {p \in ContentInputs \X MetadataInputs : Document(p[1], p[2]).raised = "none"}}

\* what else a caller can put in the list (test_state.py:67)
NonDocuments == {[cls |-> "str", content |-> PyStr("invalid"), metadata |-> PyNone]}

---------------------------------------------------------------------------
(* Option, Analysis, Recommendation (data_processing/models.py) *)

\* a float, held in tenths: PyFloat(5) is 0.5
PyFloat(tenths) == [t |-> "float", v |-> tenths]

\* 1.0 and 10.0 in tenths: the upper ends of the similarity and confidence ranges
MaxSimilarity == 10
MaxConfidence == 100

\* isinstance(x, cls) for the dataclasses of models.py
IsInstance(x, cls) == "cls" \in DOMAIN x /\ x.cls = cls

\* all(isinstance(p, str) for p in items)
AllStr(items) == \A i \in 1..Len(items) : items[i].t = "str"

\* Option.__post_init__ with the ends of the range excluded
Option_exclusive_range(id, title, description, data, similarity_score) ==
    IF ~Truthy(id) \/ id.t # "str"
    THEN Raise("ValueError", "Option ID must be a non-empty string")
    ELSE IF ~Truthy(title) \/ title.t # "str"
    THEN Raise("ValueError", "Option title must be a non-empty string")
    ELSE IF data.t # "dict"
    THEN Raise("ValueError", "Option data must be a dictionary")
    ELSE IF ~(0 < similarity_score.v /\ similarity_score.v < MaxSimilarity)
    THEN Raise("ValueError", "Similarity score must be between 0.0 and 1.0")
    ELSE Ok([cls |-> "Option", id |-> id, title |-> title,
             description |-> description, data |-> data,
             similarity_score |-> similarity_score])

\* Option.__post_init__
Option(id, title, description, data, similarity_score) ==
    IF ~Truthy(id) \/ id.t # "str"
    THEN Raise("ValueError", "Option ID must be a non-empty string")
    ELSE IF ~Truthy(title) \/ title.t # "str"
    THEN Raise("ValueError", "Option title must be a non-empty string")
    ELSE IF data.t # "dict"
    THEN Raise("ValueError", "Option data must be a dictionary")
    ELSE IF ~(0 <= similarity_score.v /\ similarity_score.v <= MaxSimilarity)
    THEN Raise("ValueError", "Similarity score must be between 0.0 and 1.0")
    ELSE Ok([cls |-> "Option", id |-> id, title |-> title,
             description |-> description, data |-> data,
             similarity_score |-> similarity_score])

\* Analysis.__post_init__ without the check of cons
Analysis_unchecked_cons(option_id, pros, cons, summary, confidence) ==
    IF ~Truthy(option_id) \/ option_id.t # "str"
    THEN Raise("ValueError", "Option ID must be a non-empty string")
    ELSE IF pros.t # "list" \/ ~AllStr(pros.items)
    THEN Raise("ValueError", "Pros must be a list of strings")
    ELSE IF ~Truthy(summary) \/ summary.t # "str"
    THEN Raise("ValueError", "Summary must be a non-empty string")
    ELSE IF ~(0 <= confidence.v /\ confidence.v <= MaxConfidence)
    THEN Raise("ValueError", "Confidence must be between 0.0 and 10.0")
    ELSE Ok([cls |-> "Analysis", option_id |-> option_id, pros |-> pros,
             cons |-> cons, summary |-> summary, confidence |-> confidence])

\* Analysis.__post_init__
Analysis(option_id, pros, cons, summary, confidence) ==
    IF ~Truthy(option_id) \/ option_id.t # "str"
    THEN Raise("ValueError", "Option ID must be a non-empty string")
    ELSE IF pros.t # "list" \/ ~AllStr(pros.items)
    THEN Raise("ValueError", "Pros must be a list of strings")
    ELSE IF cons.t # "list" \/ ~AllStr(cons.items)
    THEN Raise("ValueError", "Cons must be a list of strings")
    ELSE IF ~Truthy(summary) \/ summary.t # "str"
    THEN Raise("ValueError", "Summary must be a non-empty string")
    ELSE IF ~(0 <= confidence.v /\ confidence.v <= MaxConfidence)
    THEN Raise("ValueError", "Confidence must be between 0.0 and 10.0")
    ELSE Ok([cls |-> "Analysis", option_id |-> option_id, pros |-> pros,
             cons |-> cons, summary |-> summary, confidence |-> confidence])

\* Recommendation.__post_init__ without the final comparison of the ids
Recommendation_unchecked_ids(option, analysis, score, reasoning, rank) ==
    IF ~IsInstance(option, "Option")
    THEN Raise("ValueError", "Option must be an Option instance")
    ELSE IF ~IsInstance(analysis, "Analysis")
    THEN Raise("ValueError", "Analysis must be an Analysis instance")
    ELSE IF score.v < 0
    THEN Raise("ValueError", "Score must be non-negative")
    ELSE IF ~Truthy(reasoning) \/ reasoning.t # "str"
    THEN Raise("ValueError", "Reasoning must be a non-empty string")
    ELSE IF rank.v < 1
    THEN Raise("ValueError", "Rank must be a positive integer")
    ELSE Ok([cls |-> "Recommendation", option |-> option, analysis |-> analysis,
             score |-> score, reasoning |-> reasoning, rank |-> rank])

\* Recommendation.__post_init__
Recommendation(option, analysis, score, reasoning, rank) ==
    IF ~IsInstance(option, "Option")
    THEN Raise("ValueError", "Option must be an Option instance")
    ELSE IF ~IsInstance(analysis, "Analysis")
    THEN Raise("ValueError", "Analysis must be an Analysis instance")
    ELSE IF score.v < 0
    THEN Raise("ValueError", "Score must be non-negative")
    ELSE IF ~Truthy(reasoning) \/ reasoning.t # "str"
    THEN Raise("ValueError", "Reasoning must be a non-empty string")
    ELSE IF rank.v < 1
    THEN Raise("ValueError", "Rank must be a positive integer")
    ELSE IF option.id # analysis.option_id
    THEN Raise("ValueError", "Option ID and Analysis option_id must match")
    ELSE Ok([cls |-> "Recommendation", option |-> option, analysis |-> analysis,
             score |-> score, reasoning |-> reasoning, rank |-> rank])

---------------------------------------------------------------------------
(* State management (multi_agent_decision_system/workflow/state.py) *)

\* the keys of the AgentState TypedDict
AgentStateKeys ==
    {"user_query", "uploaded_data", "found_options", "analyses",
     "recommendations", "current_step", "error_context", "processing_metadata"}

AllDocuments(items) == \A i \in 1..Len(items) : items[i].cls = "Document"

\* create_initial_state without its isinstance(doc, Document) check
create_initial_state_unchecked_items(user_query, uploaded_data) ==
    IF ~Truthy(user_query) \/ user_query.t # "str"
    THEN Raise("ValueError", "User query must be a non-empty string")
    ELSE IF ~Truthy(uploaded_data) \/ uploaded_data.t # "list"
    THEN Raise("ValueError", "Uploaded data must be a non-empty list")
    ELSE Ok([user_query |-> user_query,
             uploaded_data |-> uploaded_data,
             found_options |-> <<>>,
             analyses |-> <<>>,
             recommendations |-> <<>>,
             current_step |-> "option_finder",
             error_context |-> PyNone,
             processing_metadata |->
                 [start_time |-> PyNone,
                  total_documents |-> Len(uploaded_data.items),
                  workflow_version |-> "1.0"]])

\* create_initial_state counting the documents from zero (len - 1)
create_initial_state_miscount(user_query, uploaded_data) ==
    IF ~Truthy(user_query) \/ user_query.t # "str"
    THEN Raise("ValueError", "User query must be a non-empty string")
    ELSE IF ~Truthy(uploaded_data) \/ uploaded_data.t # "list"
    THEN Raise("ValueError", "Uploaded data must be a non-empty list")
    ELSE IF ~AllDocuments(uploaded_data.items)
    THEN Raise("ValueError", "All uploaded data items must be Document instances")
    ELSE Ok([user_query |-> user_query,
             uploaded_data |-> uploaded_data,
             found_options |-> <<>>,
             analyses |-> <<>>,
             recommendations |-> <<>>,
             current_step |-> "option_finder",
             error_context |-> PyNone,
             processing_metadata |->
                 [start_time |-> PyNone,
                  total_documents |-> Len(uploaded_data.items) - 1,
                  workflow_version |-> "1.0"]])

create_initial_state(user_query, uploaded_data) ==
    IF ~Truthy(user_query) \/ user_query.t # "str"
    THEN Raise("ValueError", "User query must be a non-empty string")
    ELSE IF ~Truthy(uploaded_data) \/ uploaded_data.t # "list"
    THEN Raise("ValueError", "Uploaded data must be a non-empty list")
    ELSE IF ~AllDocuments(uploaded_data.items)
    THEN Raise("ValueError", "All uploaded data items must be Document instances")
    ELSE Ok([user_query |-> user_query,
             uploaded_data |-> uploaded_data,
             found_options |-> <<>>,
             analyses |-> <<>>,
             recommendations |-> <<>>,
             current_step |-> "option_finder",
             error_context |-> PyNone,
             processing_metadata |->
                 [start_time |-> PyNone,
                  total_documents |-> Len(uploaded_data.items),
                  workflow_version |-> "1.0"]])

valid_steps == <<"option_finder", "pros_cons", "decision", "complete", "error">>

\* x in list
InList(x, list) == \E i \in 1..Len(list) : list[i] = x

\* the transition table with a recovery edge error -> complete added
valid_transitions_error_to_complete ==
    [option_finder |-> <<"pros_cons", "error">>,
     pros_cons |-> <<"decision", "error">>,
     decision |-> <<"complete", "error">>,
     error |-> <<"option_finder", "pros_cons", "decision", "complete">>,
     complete |-> <<>>]

\* the transition table with an edge complete -> error added
valid_transitions_complete_to_error ==
    [option_finder |-> <<"pros_cons", "error">>,
     pros_cons |-> <<"decision", "error">>,
     decision |-> <<"complete", "error">>,
     error |-> <<"option_finder", "pros_cons", "decision">>,
     complete |-> <<"error">>]

valid_transitions ==
    [option_finder |-> <<"pros_cons", "error">>,
     pros_cons |-> <<"decision", "error">>,
     decision |-> <<"complete", "error">>,
     error |-> <<"option_finder", "pros_cons", "decision">>,
     complete |-> <<>>]

\* dict.get(key, default)
DictGet(dict, key, default) == IF key \in DOMAIN dict THEN dict[key] ELSE default

validate_state_transition(current_step, next_step) ==
    InList(next_step, DictGet(valid_transitions, current_step, <<>>))

\* update_state_step that also resets error_context
update_state_step_clears_error(st, new_step) ==
    IF ~InList(new_step, valid_steps)
    THEN RaiseOn(st, "ValueError", <<"Invalid step: ", new_step>>)
    ELSE OkOn(st, [st EXCEPT !.current_step = new_step, !.error_context = PyNone])

\* update_state_step without the membership test on valid_steps
update_state_step_any_name(st, new_step) ==
    OkOn(st, [st EXCEPT !.current_step = new_step])

\* update_state_step whose list of valid steps lacks "complete"
update_state_step_no_complete(st, new_step) ==
    IF ~InList(new_step, SubSeq(valid_steps, 1, 3) \o SubSeq(valid_steps, 5, 5))
    THEN RaiseOn(st, "ValueError", <<"Invalid step: ", new_step>>)
    ELSE OkOn(st, [st EXCEPT !.current_step = new_step])

\* update_state_step that refuses to leave the error step
update_state_step_stuck_in_error(st, new_step) ==
    IF ~InList(new_step, valid_steps) \/ st.current_step = "error"
    THEN RaiseOn(st, "ValueError", <<"Invalid step: ", new_step>>)
    ELSE OkOn(st, [st EXCEPT !.current_step = new_step])

\* update_state_step that assigns the step in place before it checks the name
update_state_step_assigns_first(st, new_step) ==
    IF ~InList(new_step, valid_steps)
    THEN RaiseOn([st EXCEPT !.current_step = new_step],
                 "ValueError", <<"Invalid step: ", new_step>>)
    ELSE OkOn(st, [st EXCEPT !.current_step = new_step])

update_state_step(st, new_step) ==
    IF ~InList(new_step, valid_steps)
    THEN RaiseOn(st, "ValueError", <<"Invalid step: ", new_step>>)
    ELSE OkOn(st, [st EXCEPT !.current_step = new_step])

\* add_error_context that records the error but leaves the step alone
add_error_context_keeps_step(st, error_info) ==
    IF error_info.t # "dict"
    THEN RaiseOn(st, "ValueError", <<"Error info must be a dictionary">>)
    ELSE OkOn(st, [st EXCEPT !.error_context = error_info])

\* add_error_context that stores an empty record instead of error_info
add_error_context_drops_info(st, error_info) ==
    IF error_info.t # "dict"
    THEN RaiseOn(st, "ValueError", <<"Error info must be a dictionary">>)
    ELSE OkOn(st, [st EXCEPT !.error_context = PyDict(<<>>), !.current_step = "error"])

\* add_error_context that writes into the dict it was given
add_error_context_in_place(st, error_info) ==
    IF error_info.t # "dict"
    THEN RaiseOn(st, "ValueError", <<"Error info must be a dictionary">>)
    ELSE LET st2 == [st EXCEPT !.error_context = error_info, !.current_step = "error"]
         IN OkOn(st2, st2)

add_error_context(st, error_info) ==
    IF error_info.t # "dict"
    THEN RaiseOn(st, "ValueError", <<"Error info must be a dictionary">>)
    ELSE OkOn(st, [st EXCEPT !.error_context = error_info, !.current_step = "error"])

---------------------------------------------------------------------------
(* The calls a caller makes on the state API *)

\* the sequences over S of length 0..n
SeqsUpTo(S, n) == UNION {[1..k -> S] : k \in 0..n}

PyList(items) == [t |-> "list", items |-> items]
PyTuple(items) == [t |-> "tuple", items |-> items]

\* user_query arguments: strings, the empty string, None and a number
QueryInputs ==
    {PyStr("Find best option"), PyStr("Test query"), PyStr(""), PyNone, PyInt("7")}

\* uploaded_data arguments: lists of Documents and of other things, the empty
\* list, None and a tuple of Documents
DataInputs ==
    {PyList(items) : items \in SeqsUpTo(Documents \union NonDocuments, MaxDocs)}
        \union {PyNone}
        \union {PyTuple(<<d>>) : d \in Documents}

\* new_step arguments: the five steps and names that are none of them
StepInputs ==
    {"option_finder", "pros_cons", "decision", "complete", "error",
     "invalid_step", "unknown_step", "", "Complete", "done"}

\* the new_step arguments used on a state
NewStepInputs ==
    {"option_finder", "pros_cons", "decision", "complete", "error", "invalid_step"}

\* error_info arguments: the two dicts of test_state.py and a string
ErrorInfoInputs ==
    {PyDict([error |-> "LLM API failed", step |-> "pros_cons"]),
     PyDict([error_type |-> "LLM_API_ERROR",
             message |-> "API rate limit exceeded",
             timestamp |-> "2024-01-01T12:00:00"]),
     PyStr("invalid error info")}

\* what the agents of a caller store under the "Agent outputs" keys
AgentOutputs ==
    [found_options |-> <<"option-1">>,
     analyses |-> <<"analysis-1">>,
     recommendations |-> <<"recommendation-1">>]

Init ==
    /\ state = PyNone
    /\ arg_state = PyNone
    /\ trace = <<>>
    /\ vt = [called |-> FALSE, current_step |-> "", next_step |-> "", result |-> FALSE]
    /\ wf = PyNone
    /\ pc = "idle"
    /\ collab = <<>>
    /\ built = [cls |-> "none"]
    /\ ran = <<>>
    /\ san = [called |-> FALSE, content |-> <<>>, result |-> <<>>]

\* state = create_initial_state(user_query, uploaded_data)
CreateInitialState(user_query, uploaded_data) ==
    /\ state = PyNone
    /\ LET r == create_initial_state(user_query, uploaded_data) IN
        /\ trace' = <<[op |-> "create_initial_state",
                        user_query |-> user_query,
                        uploaded_data |-> uploaded_data,
                        raised |-> r.raised,
                        msg |-> r.msg,
                        ret |-> IF r.raised = "none" THEN r.val ELSE PyNone]>>
        /\ state' = IF r.raised = "none" THEN r.val ELSE state
    /\ arg_state' = PyNone
    /\ UNCHANGED <<vt, wf, pc, collab, built, ran, san>>

\* state = update_state_step(state, new_step)
UpdateStateStep(new_step) ==
    /\ state # PyNone
    /\ Len(trace) < 1 + MaxCalls
    /\ LET r == update_state_step(state, new_step) IN
        /\ trace' = Append(trace,
                        [op |-> "update_state_step",
                         arg |-> state,
                         new_step |-> new_step,
                         raised |-> r.raised,
                         msg |-> r.msg,
                         ret |-> IF r.raised = "none" THEN r.val ELSE PyNone])
        /\ state' = IF r.raised = "none" THEN r.val ELSE r.input
        /\ arg_state' = r.input
    /\ UNCHANGED <<vt, wf, pc, collab, built, ran, san>>

\* state = add_error_context(state, error_info)
AddErrorContext(error_info) ==
    /\ state # PyNone
    /\ Len(trace) < 1 + MaxCalls
    /\ LET r == add_error_context(state, error_info) IN
        /\ trace' = Append(trace,
                        [op |-> "add_error_context",
                         arg |-> state,
                         error_info |-> error_info,
                         raised |-> r.raised,
                         msg |-> r.msg,
                         ret |-> IF r.raised = "none" THEN r.val ELSE PyNone])
        /\ state' = IF r.raised = "none" THEN r.val ELSE r.input
        /\ arg_state' = r.input
    /\ UNCHANGED <<vt, wf, pc, collab, built, ran, san>>

\* the caller's agents write their outputs into the dict:
\* state["found_options"] = ..., state["analyses"] = ..., state["recommendations"] = ...
SetAgentOutputs ==
    /\ state # PyNone
    /\ Len(trace) < 1 + MaxCalls
    /\ state.found_options = <<>>
    /\ trace' = Append(trace, [op |-> "set_agent_outputs", arg |-> state])
    /\ state' = [state EXCEPT !.found_options = AgentOutputs.found_options,
                              !.analyses = AgentOutputs.analyses,
                              !.recommendations = AgentOutputs.recommendations]
    /\ arg_state' = state'
    /\ UNCHANGED <<vt, wf, pc, collab, built, ran, san>>

Next ==
    \/ \E q \in QueryInputs, d \in DataInputs : CreateInitialState(q, d)
    \/ \E s \in NewStepInputs : UpdateStateStep(s)
    \/ \E e \in ErrorInfoInputs : AddErrorContext(e)
    \/ SetAgentOutputs

Spec == Init /\ [][Next]_vars

\* validate_state_transition(current_step, next_step)
ValidateStateTransition(current_step, next_step) ==
    /\ vt' = [called |-> TRUE,
              current_step |-> current_step,
              next_step |-> next_step,
              result |-> validate_state_transition(current_step, next_step)]
    /\ UNCHANGED <<state, arg_state, trace, wf, pc, collab, built, ran, san>>

\* a caller that consults the validator before it advances:
\* if validate_state_transition(state["current_step"], s): state = update_state_step(state, s)
ValidatedStep(new_step) ==
    /\ state # PyNone
    /\ validate_state_transition(state.current_step, new_step)
    /\ UpdateStateStep(new_step)

\* the same for a failure: add_error_context moves the state to error
ValidatedFail(error_info) ==
    /\ state # PyNone
    /\ validate_state_transition(state.current_step, "error")
    /\ AddErrorContext(error_info)

NextValidated ==
    \/ \E q \in QueryInputs, d \in DataInputs : CreateInitialState(q, d)
    \/ \E s \in NewStepInputs : ValidatedStep(s)
    \/ \E e \in ErrorInfoInputs : ValidatedFail(e)

SpecValidated == Init /\ [][NextValidated]_vars

NextValidator ==
    \E c \in StepInputs, n \in StepInputs : ValidateStateTransition(c, n)

SpecValidator == Init /\ [][NextValidator]_vars

---------------------------------------------------------------------------
(* The agents (agents/) and the workflow (workflow/orchestrator.py) *)

\* similarity_search(query, k=5) in OptionFinderAgent.__call__
TopK == 5

Min(a, b) == IF a < b THEN a ELSE b

\* d[k] = v on a dict
DictSet(d, k, v) == [x \in DOMAIN d \union {k} |-> IF x = k THEN v ELSE d[x]]

\* the page_content of the documents the vector store holds
StoredContents == {"Electric car", "Hybrid car"}

LangchainDocument(page_content) == [page_content |-> page_content]

\* what VectorStore.similarity_search can do: return at most k of the stored
\* documents (none when the index is empty), or fail in the backend
SimilaritySearchOutcomes(k) ==
    {Ok(results) : results \in
        SeqsUpTo({LangchainDocument(c) : c \in StoredContents}, Min(k, MaxStored))}
    \union {Raise("Exception", "retrieval backend failed")}

\* what GeminiLLMWrapper.generate(prompt) can do: return text, or fail
GenerateOk(prompt) == Ok(<<"response to", prompt>>)
GenerateFail == Raise("Exception", "LLM API failed")
GenerateOutcomes(prompt) == {GenerateOk(prompt), GenerateFail}

\* str(e)
StrOfException(r) == r.msg

\* OptionFinderAgent.__call__(state), the retrieval collaborator doing `search`
OptionFinderAgent(st, search) ==
    IF "query" \notin DOMAIN st
    THEN RaiseOn(st, "KeyError", <<"query">>)
    ELSE IF search.raised # "none"
    THEN RaiseOn(st, search.raised, search.msg)
    ELSE LET st2 == DictSet(st, "candidates", search.val)
         IN OkOn(st2, st2)

\* the prompt ProsConsAgent builds for the i-th option
ProsConsPrompt(i, option) == <<"Analyze the following option", i, option.page_content>>

RECURSIVE ProsConsLoop(_, _, _, _)
\* the for loop of ProsConsAgent.__call__ from index i on
ProsConsLoop(candidates, generate, i, analyses) ==
    IF i > Len(candidates)
    THEN analyses
    ELSE LET option == candidates[i]
             r == generate[i]
             entry == IF r.raised = "none"
                      THEN [option |-> option.page_content, analysis |-> r.val]
                      ELSE [option |-> option.page_content,
                            analysis |-> <<"Error analyzing option: ", StrOfException(r)>>]
         IN ProsConsLoop(candidates, generate, i + 1, Append(analyses, entry))

RECURSIVE ProsConsLoopSkipping(_, _, _, _)
\* the loop with an except branch that records nothing for a failed option
ProsConsLoopSkipping(candidates, generate, i, analyses) ==
    IF i > Len(candidates)
    THEN analyses
    ELSE ProsConsLoopSkipping(candidates, generate, i + 1,
            IF generate[i].raised = "none"
            THEN Append(analyses, [option |-> candidates[i].page_content,
                                   analysis |-> generate[i].val])
            ELSE analyses)

\* ProsConsAgent that drops the options whose analysis failed
ProsConsAgent_skips_failed(st, generate) ==
    IF "candidates" \notin DOMAIN st
    THEN RaiseOn(st, "KeyError", <<"candidates">>)
    ELSE LET st2 == DictSet(st, "analyses",
                        ProsConsLoopSkipping(st.candidates, generate, 1, <<>>))
         IN OkOn(st2, st2)

\* ProsConsAgent that starts from the analyses the state already holds
ProsConsAgent_appends(st, generate) ==
    IF "candidates" \notin DOMAIN st
    THEN RaiseOn(st, "KeyError", <<"candidates">>)
    ELSE LET st2 == DictSet(st, "analyses",
                        ProsConsLoop(st.candidates, generate, 1,
                            IF "analyses" \in DOMAIN st THEN st.analyses ELSE <<>>))
         IN OkOn(st2, st2)

\* ProsConsAgent.__call__(state), generate[i] being what the LLM does on the
\* i-th call
ProsConsAgent(st, generate) ==
    IF "candidates" \notin DOMAIN st
    THEN RaiseOn(st, "KeyError", <<"candidates">>)
    ELSE LET st2 == DictSet(st, "analyses",
                        ProsConsLoop(st.candidates, generate, 1, <<>>))
         IN OkOn(st2, st2)

\* the prompt DecisionAgent builds from the analyses
DecisionPrompt(analyses) == <<"Based on the following analyses", analyses>>

\* DecisionAgent that answers a failure with a fresh dict holding only the
\* error text
DecisionAgent_fresh_state_on_failure(st, generate) ==
    IF "analyses" \notin DOMAIN st
    THEN RaiseOn(st, "KeyError", <<"analyses">>)
    ELSE IF generate.raised = "none"
    THEN LET st2 == DictSet(st, "recommendation", generate.val) IN OkOn(st2, st2)
    ELSE OkOn(st, [recommendation |->
                      <<"Error generating recommendation: ", StrOfException(generate)>>])

\* DecisionAgent without its try/except
DecisionAgent_reraises(st, generate) ==
    IF "analyses" \notin DOMAIN st
    THEN RaiseOn(st, "KeyError", <<"analyses">>)
    ELSE IF generate.raised = "none"
    THEN LET st2 == DictSet(st, "recommendation", generate.val) IN OkOn(st2, st2)
    ELSE RaiseOn(st, generate.raised, generate.msg)

\* DecisionAgent.__call__(state), the LLM doing `generate`
DecisionAgent(st, generate) ==
    IF "analyses" \notin DOMAIN st
    THEN RaiseOn(st, "KeyError", <<"analyses">>)
    ELSE LET st2 == DictSet(st, "recommendation",
                        IF generate.raised = "none"
                        THEN generate.val
                        ELSE <<"Error generating recommendation: ",
                               StrOfException(generate)>>)
         IN OkOn(st2, st2)

\* the prompts ProsConsAgent passes to llm.generate, in the order of the calls
ProsConsCalls_stops_at_failure(candidates, generate) ==
    LET failed == {i \in 1..Len(candidates) : generate[i].raised # "none"}
        last == IF failed = {} THEN Len(candidates)
                ELSE CHOOSE i \in failed : \A j \in failed : i <= j
    IN [i \in 1..last |-> ProsConsPrompt(i, candidates[i])]

\* the prompts ProsConsAgent passes to llm.generate, in the order of the calls:
\* one per iteration of the loop, inside the try whatever the earlier outcomes
ProsConsCalls(candidates, generate) ==
    [i \in 1..Len(candidates) |-> ProsConsPrompt(i, candidates[i])]

\* one call agent(state): the dict before the call, the same object after it,
\* and what the call returned
AgentCall(node, st, r) ==
    [node |-> node, before |-> st, after |-> r.input, raised |-> r.raised,
     ret |-> IF r.raised = "none" THEN r.val ELSE PyNone]

\* a graph whose last edge leads back to the entry point
edges_loop_back ==
    [find_options |-> "pros_cons", pros_cons |-> "decision", decision |-> "find_options"]

\* build_workflow: the edges added to the graph and its entry point
edges == [find_options |-> "pros_cons", pros_cons |-> "decision", decision |-> "END"]
entry_point == "find_options"

\* the query typed into the UI
WorkflowQueries == {PyStr("affordable transportation"), PyStr("best car")}

\* result = workflow.invoke({"query": query})
Invoke(query) ==
    /\ pc = "idle"
    /\ wf' = [query |-> query]
    /\ pc' = entry_point
    /\ UNCHANGED <<state, arg_state, trace, vt, collab, built, ran, san>>

\* a node has run: its return value is the state of the next node, and an
\* exception it raises leaves workflow.invoke
NodeDone(r) ==
    /\ IF r.raised = "none"
       THEN wf' = r.val /\ pc' = edges[pc]
       ELSE wf' = r.input /\ pc' = "raised"
    /\ ran' = Append(ran, AgentCall(pc, wf, r))

\* the node "find_options"
FindOptions ==
    /\ pc = "find_options"
    /\ \E search \in SimilaritySearchOutcomes(TopK) :
        /\ NodeDone(OptionFinderAgent(wf, search))
        /\ collab' = Append(collab,
                        [call |-> "similarity_search", arg |-> wf.query,
                         raised |-> search.raised])
    /\ UNCHANGED <<state, arg_state, trace, vt, built, san>>

\* the node "pros_cons"
ProsCons ==
    /\ pc = "pros_cons"
    /\ LET n == Len(wf.candidates) IN
       \E generate \in [1..n -> {"ok", "fail"}] :
        LET outcomes == [i \in 1..n |->
                            IF generate[i] = "ok"
                            THEN GenerateOk(ProsConsPrompt(i, wf.candidates[i]))
                            ELSE GenerateFail]
        IN  /\ NodeDone(ProsConsAgent(wf, outcomes))
            /\ collab' = collab \o
                    [i \in DOMAIN ProsConsCalls(wf.candidates, outcomes) |->
                        [call |-> "generate",
                         arg |-> ProsConsCalls(wf.candidates, outcomes)[i],
                         raised |-> outcomes[i].raised]]
    /\ UNCHANGED <<state, arg_state, trace, vt, built, san>>

\* the node "decision"
Decision ==
    /\ pc = "decision"
    /\ \E generate \in GenerateOutcomes(DecisionPrompt(wf.analyses)) :
        /\ NodeDone(DecisionAgent(wf, generate))
        /\ collab' = Append(collab,
                        [call |-> "generate", arg |-> DecisionPrompt(wf.analyses),
                         raised |-> generate.raised])
    /\ UNCHANGED <<state, arg_state, trace, vt, built, san>>

NextWorkflow ==
    \/ \E q \in WorkflowQueries : Invoke(q)
    \/ FindOptions
    \/ ProsCons
    \/ Decision

SpecWorkflow == Init /\ [][NextWorkflow]_vars

\* a caller-invoked retry: once the invocation has ended or raised, the caller
\* runs the stages again from `node` on, on the dict the last run left
Reenter(node) ==
    /\ pc \in {"END", "raised"}
    /\ Len(ran) <= MaxRuns
    /\ node = "pros_cons" => "candidates" \in DOMAIN wf
    /\ node = "decision" => "analyses" \in DOMAIN wf
    /\ pc' = node
    /\ UNCHANGED <<state, arg_state, trace, vt, wf, collab, built, ran, san>>

NextRetry ==
    \/ NextWorkflow
    \/ \E node \in DOMAIN edges : Reenter(node)

SpecRetry == Init /\ [][NextRetry]_vars

---------------------------------------------------------------------------
(* Constructions of the entities *)

\* a rank or any other int
PyIntN(n) == [t |-> "int", v |-> n]

\* arguments of Option(...): similarity scores -0.1, 0.0, 0.5, 1.0 and 1.5
OptionIdInputs == {PyStr("opt_1"), PyStr("opt_2"), PyStr(""), PyNone}
TitleInputs == {PyStr("Test Option"), PyStr("")}
OptionDataInputs == {PyDict([price |-> "100"]), PyStr("invalid")}
SimilarityInputs == {PyFloat(-1), PyFloat(0), PyFloat(5), PyFloat(10), PyFloat(15)}

\* arguments of Analysis(...): confidences -1.0, 0.0, 5.0, 10.0 and 11.0
AnalysisIdInputs == {PyStr("opt_1"), PyStr("opt_2"), PyStr("")}
ProsInputs ==
    {[t |-> "list", items |-> <<PyStr("Pro 1")>>],
     [t |-> "list", items |-> <<PyStr("Pro 1"), PyStr("")>>],
     [t |-> "list", items |-> <<PyInt("1")>>],
     [t |-> "list", items |-> <<>>],
     PyStr("invalid")}
ConsInputs ==
    {[t |-> "list", items |-> <<PyStr("Con 1")>>],
     [t |-> "list", items |-> <<PyInt("1")>>]}
SummaryInputs == {PyStr("Test summary"), PyStr("")}
ConfidenceInputs ==
    {PyFloat(-10), PyFloat(0), PyFloat(50), PyFloat(100), PyFloat(110)}

\* arguments of Recommendation(...): Option and Analysis instances for two
\* ids and values that are neither; scores -10.0, 0.0 and 85.5; ranks 0 and 1
OptionArgs ==
    {Option(id, PyStr("Test Option"), PyStr("Test description"),
            PyDict([price |-> "100"]), PyFloat(8)).val :
        id \in {PyStr("opt_1"), PyStr("opt_2")}}
        \union {PyStr("invalid")}
AnalysisArgs ==
    {Analysis(id, [t |-> "list", items |-> <<PyStr("Pro 1")>>],
              [t |-> "list", items |-> <<PyStr("Con 1")>>],
              PyStr("Test summary"), PyFloat(70)).val :
        id \in {PyStr("opt_1"), PyStr("opt_2")}}
        \union {PyStr("invalid")}
ScoreInputs == {PyFloat(-100), PyFloat(0), PyFloat(855)}
ReasoningInputs == {PyStr("Test reasoning"), PyStr("")}
RankInputs == {PyIntN(0), PyIntN(1)}

\* Option(id=..., title=..., description=..., data=..., similarity_score=...)
NewOption(id, title, data, similarity_score) ==
    /\ built' = [cls |-> "Option",
                 args |-> [id |-> id, title |-> title, data |-> data,
                           similarity_score |-> similarity_score],
                 out |-> Option(id, title, PyStr("Test description"), data,
                                similarity_score)]
    /\ UNCHANGED <<state, arg_state, trace, vt, wf, pc, collab, ran, san>>

\* Analysis(option_id=..., pros=..., cons=..., summary=..., confidence=...)
NewAnalysis(option_id, pros, cons, summary, confidence) ==
    /\ built' = [cls |-> "Analysis",
                 args |-> [option_id |-> option_id, pros |-> pros, cons |-> cons,
                           summary |-> summary, confidence |-> confidence],
                 out |-> Analysis(option_id, pros, cons, summary, confidence)]
    /\ UNCHANGED <<state, arg_state, trace, vt, wf, pc, collab, ran, san>>

\* Recommendation(option=..., analysis=..., score=..., reasoning=..., rank=...)
NewRecommendation(option, analysis, score, reasoning, rank) ==
    /\ built' = [cls |-> "Recommendation",
                 args |-> [option |-> option, analysis |-> analysis, score |-> score,
                           reasoning |-> reasoning, rank |-> rank],
                 out |-> Recommendation(option, analysis, score, reasoning, rank)]
    /\ UNCHANGED <<state, arg_state, trace, vt, wf, pc, collab, ran, san>>

NextEntities ==
    \/ \E id \in OptionIdInputs, title \in TitleInputs, data \in OptionDataInputs,
          sim \in SimilarityInputs : NewOption(id, title, data, sim)
    \/ \E id \in AnalysisIdInputs, pros \in ProsInputs, cons \in ConsInputs,
          summary \in SummaryInputs, conf \in ConfidenceInputs :
            NewAnalysis(id, pros, cons, summary, conf)
    \/ \E o \in OptionArgs, a \in AnalysisArgs, score \in ScoreInputs,
          reasoning \in ReasoningInputs, rank \in RankInputs :
            NewRecommendation(o, a, score, reasoning, rank)

SpecEntities == Init /\ [][NextEntities]_vars

\* values assigned to a field of an existing instance
AttrInputs ==
    {<<"Option", "similarity_score", v>> : v \in SimilarityInputs}
    \union {<<"Analysis", "confidence", v>> : v \in ConfidenceInputs}
    \union {<<"Recommendation", "option", o>> : o \in OptionArgs \ {PyStr("invalid")}}
    \union {<<"Recommendation", "rank", n>> : n \in RankInputs}

\* instance.name = value on the instance last constructed: the dataclasses are
\* not frozen, so the assignment stores the value and runs no validation
SetAttr(cls, name, value) ==
    /\ built.cls = cls
    /\ built.out.raised = "none"
    /\ built' = [built EXCEPT !.out.val[name] = value]
    /\ UNCHANGED <<state, arg_state, trace, vt, wf, pc, collab, ran, san>>

NextInstances ==
    \/ NextEntities
    \/ \E a \in AttrInputs : SetAttr(a[1], a[2], a[3])

SpecInstances == Init /\ [][NextInstances]_vars


---------------------------------------------------------------------------
(* sanitize_text_content (multi_agent_decision_system/utils/validation.py) *)

\* a str as the sequence of the code points ord(char) of its characters
PyText(chars) == [t |-> "str", chars |-> chars]

\* re.IGNORECASE on the ASCII letters
Lower(c) == IF 65 <= c /\ c <= 90 THEN c + 32 ELSE c

\* \w and \s of re on ASCII text
IsWord(c) ==
    \/ 48 <= c /\ c <= 57
    \/ 65 <= c /\ c <= 90
    \/ 97 <= c /\ c <= 122
    \/ c = 95
IsSpace(c) == c \in {9, 10, 11, 12, 13, 28, 29, 30, 31, 32}

\* DANGEROUS_PATTERNS, in the order of the list: <tag[^>]*>.*?</tag> as a
\* "block" with its opening and closing literals, javascript:[^"\s]* as "url",
\* on\w+\s*= as "handler"
DANGEROUS_PATTERNS ==
    <<[kind |-> "block", open |-> <<60, 115, 99, 114, 105, 112, 116>>, close |-> <<60, 47, 115, 99, 114, 105, 112, 116, 62>>],
      [kind |-> "url", open |-> <<106, 97, 118, 97, 115, 99, 114, 105, 112, 116, 58>>],
      [kind |-> "handler", open |-> <<111, 110>>],
      [kind |-> "block", open |-> <<60, 105, 102, 114, 97, 109, 101>>, close |-> <<60, 47, 105, 102, 114, 97, 109, 101, 62>>],
      [kind |-> "block", open |-> <<60, 111, 98, 106, 101, 99, 116>>, close |-> <<60, 47, 111, 98, 106, 101, 99, 116, 62>>],
      [kind |-> "block", open |-> <<60, 101, 109, 98, 101, 100>>, close |-> <<60, 47, 101, 109, 98, 101, 100, 62>>]>>

\* the literal lit matches s at index i, letters compared without case
StartsWithAt(s, i, lit) ==
    /\ i + Len(lit) - 1 <= Len(s)
    /\ \A k \in 1..Len(lit) : Lower(s[i + k - 1]) = lit[k]

\* the first index from i on where lit matches s, 0 if there is none
FindLit(s, i, lit) ==
    LET hits == {j \in i..Len(s) : StartsWithAt(s, j, lit)}
    IN IF hits = {} THEN 0 ELSE CHOOSE j \in hits : \A h \in hits : j <= h

\* the character classes of the patterns: \w, \s and [^"\s]
InClass(cls, c) ==
    CASE cls = "\\w" -> IsWord(c)
      [] cls = "\\s" -> IsSpace(c)
      [] cls = "[^\"\\s]" -> c # 34 /\ ~IsSpace(c)

\* the last index of the longest run of characters of class cls that starts
\* at i (i - 1 when the run is empty)
RunEnd(cls, s, i) ==
    LET stops == {j \in i..Len(s) : ~InClass(cls, s[j])}
    IN IF stops = {} THEN Len(s)
       ELSE (CHOOSE j \in stops : \A h \in stops : j <= h) - 1


\* the index of the last character of the match of pattern pat that starts at
\* index i of s, 0 if pat does not match there
MatchAt(pat, s, i) ==
    IF ~StartsWithAt(s, i, pat.open) THEN 0
    ELSE CASE pat.kind = "block" ->
                LET gt == FindLit(s, i + Len(pat.open), <<62>>)
                    cl == IF gt = 0 THEN 0 ELSE FindLit(s, gt + 1, pat.close)
                IN IF cl = 0 THEN 0 ELSE cl + Len(pat.close) - 1
           [] pat.kind = "url" ->
                RunEnd("[^\"\\s]", s, i + Len(pat.open))
           [] pat.kind = "handler" ->
                LET w == RunEnd("\\w", s, i + Len(pat.open))
                    sp == RunEnd("\\s", s, w + 1)
                IN IF w >= i + Len(pat.open) /\ sp + 1 <= Len(s) /\ s[sp + 1] = 61
                   THEN sp + 1 ELSE 0

RECURSIVE re_sub(_, _, _, _)
\* re.sub(pattern, ' ', s, flags=re.IGNORECASE | re.DOTALL) from index i on:
\* the leftmost matches, none overlapping, each replaced by one space
re_sub(pat, s, i, acc) ==
    IF i > Len(s) THEN acc
    ELSE LET e == MatchAt(pat, s, i)
         IN IF e = 0
            THEN re_sub(pat, s, i + 1, Append(acc, s[i]))
            ELSE re_sub(pat, s, e + 1, Append(acc, 32))

RECURSIVE RemovePatterns(_, _)
\* for pattern in DANGEROUS_PATTERNS: sanitized = re.sub(pattern, ' ', sanitized)
RemovePatterns(s, n) ==
    IF n > Len(DANGEROUS_PATTERNS) THEN s
    ELSE RemovePatterns(re_sub(DANGEROUS_PATTERNS[n], s, 1, <<>>), n + 1)

\* ord(char) >= 32 or char in '\n\t\r'
KeptChar(c) == c >= 32 \/ c \in {10, 9, 13}

\* max_length = 1_000_000
max_length == 1000000

\* str.strip()
Strip(s) ==
    LET keep == {j \in 1..Len(s) : ~IsSpace(s[j])}
    IN IF keep = {} THEN <<>>
       ELSE SubSeq(s, CHOOSE j \in keep : \A h \in keep : j <= h,
                      CHOOSE j \in keep : \A h \in keep : j >= h)

\* sanitize_text_content(content)
sanitize_text_content(content) ==
    IF content.t # "str"
    THEN Raise("SecuritySanitizationError", "Content must be a string")
    ELSE LET sanitized == SelectSeq(RemovePatterns(content.chars, 1), KeptChar)
         IN Ok(PyText(Strip(IF Len(sanitized) > max_length
                            THEN SubSeq(sanitized, 1, max_length) ELSE sanitized)))

\* pieces of text the contents given to sanitize_text_content are made of
TextPieces ==
    {<<60, 115, 99, 114, 105, 112, 116, 62>>,   \* <script>
     <<60, 47, 115, 99, 114, 105, 112, 116, 62>>,   \* </script>
     <<60, 115, 99, 114, 0, 105, 112, 116, 62>>,   \* <scr\x00ipt>
     <<60, 73, 70, 82, 65, 77, 69, 32, 115, 114, 99, 61, 120, 62>>,   \* <IFRAME src=x>
     <<60, 47, 105, 102, 114, 97, 109, 101, 62>>,   \* </iframe>
     <<60, 111, 98, 106, 101, 99, 116, 62>>,   \* <object>
     <<60, 47, 111, 98, 106, 101, 99, 116, 62>>,   \* </object>
     <<60, 101, 109, 98, 101, 100, 62>>,   \* <embed>
     <<60, 47, 101, 109, 98, 101, 100, 62>>,   \* </embed>
     <<106, 97, 118, 97, 115, 99, 114, 105, 112, 116, 58>>,   \* javascript:
     <<106, 97, 118, 97, 0, 115, 99, 114, 105, 112, 116, 58>>,   \* java\x00script:
     <<97, 108, 101, 114, 116, 40, 49, 41>>,   \* alert(1)
     <<111, 110, 99, 108, 105, 99, 107, 61>>,   \* onclick=
     <<111, 110, 1, 99, 108, 105, 99, 107, 32, 61>>,   \* on\x01click =
     <<67, 108, 101, 97, 110, 32, 116, 101, 120, 116, 32>>,   \* Clean text 
     <<10>>}   \* \n

\* the contents: up to MaxPieces pieces one after the other, and a non-string
SanitizeInputs ==
    {PyText(IF Len(ps) = 0 THEN <<>>
            ELSE IF Len(ps) = 1 THEN ps[1]
            ELSE IF Len(ps) = 2 THEN ps[1] \o ps[2]
            ELSE ps[1] \o ps[2] \o ps[3]) : ps \in SeqsUpTo(TextPieces, MaxPieces)}
    \union {PyNone}

\* sanitize_text_content(content)
SanitizeTextContent(content) ==
    /\ san' = [called |-> TRUE, content |-> content,
               result |-> sanitize_text_content(content)]
    /\ UNCHANGED <<state, arg_state, trace, vt, wf, pc, collab, built, ran>>

NextSanitize == \E content \in SanitizeInputs : SanitizeTextContent(content)

SpecSanitize == Init /\ [][NextSanitize]_vars

---------------------------------------------------------------------------
(* The claims *)

\* the five workflow steps, and the three working steps among them
StepNames == {"option_finder", "pros_cons", "decision", "complete", "error"}
WorkingSteps == {"option_finder", "pros_cons", "decision"}

\* the table of permitted transitions as pairs (from, to)
TransitionTable ==
    {<<"option_finder", "pros_cons">>, <<"option_finder", "error">>,
     <<"pros_cons", "decision">>, <<"pros_cons", "error">>,
     <<"decision", "complete">>, <<"decision", "error">>,
     <<"error", "option_finder">>, <<"error", "pros_cons">>, <<"error", "decision">>}

\* the calls of the session that are calls of `op`
CallsOf(op) == {i \in 1..Len(trace) : trace[i].op = op}
Returned(i) == trace[i].raised = "none"

\* C1: validate_state_transition(current, next) returns true exactly for the
\* pairs of the transition table, and false (it never raises) when current or
\* next is no known step.
C1_ValidatorMatchesTable ==
    vt.called =>
        /\ vt.result \in BOOLEAN
        /\ vt.result = (<<vt.current_step, vt.next_step>> \in TransitionTable)
        /\ (vt.current_step \notin StepNames \/ vt.next_step \notin StepNames)
                => vt.result = FALSE

\* C1 witness: the validator was asked about an unknown current step and a
\* known next step, and said no.
C1_Witness ==
    /\ vt.called
    /\ vt.current_step \notin StepNames
    /\ vt.next_step = "pros_cons"
    /\ vt.result = FALSE

\* C2 as stated: update_state_step with a next step the Transition Validator
\* does not permit from the current step raises and returns no state.
C2_InvalidTransitionRejected ==
    \A i \in CallsOf("update_state_step") :
        ~validate_state_transition(trace[i].arg.current_step, trace[i].new_step)
            => /\ trace[i].raised # "none"
               /\ trace[i].ret = PyNone

\* C2 amended: update_state_step raises ValueError and returns no state exactly
\* when the next step is none of the five step names; every one of the five is
\* accepted from every current step, permitted by the validator or not, and
\* the returned state carries it.
C2_OnlyUnknownStepRejected ==
    \A i \in CallsOf("update_state_step") :
        IF trace[i].new_step \in StepNames
        THEN /\ Returned(i)
             /\ trace[i].ret.current_step = trace[i].new_step
        ELSE /\ trace[i].raised = "ValueError"
             /\ trace[i].ret = PyNone

\* C2 witness: decision was requested directly from option_finder, which the
\* validator forbids, and the call returned a state at decision.
C2_Witness ==
    \E i \in CallsOf("update_state_step") :
        /\ trace[i].arg.current_step = "option_finder"
        /\ trace[i].new_step = "decision"
        /\ ~validate_state_transition("option_finder", "decision")
        /\ Returned(i)
        /\ trace[i].ret.current_step = "decision"

\* C3 as stated: once current_step is complete, no call of update_state_step
\* or add_error_context yields a state whose current_step differs from complete.
C3_CompleteAbsorbing ==
    [][(state # PyNone /\ state.current_step = "complete")
            => state'.current_step = "complete"]_vars

\* C3 amended: complete is terminal in the Transition Validator only: at a
\* state whose current_step is complete the validator permits no next step,
\* and a call that raises leaves the step at complete; a successful
\* update_state_step or add_error_context does move the state off complete.
C3_CompleteTerminalInValidatorOnly ==
    [][(state # PyNone /\ state.current_step = "complete")
            => /\ \A s \in StepInputs :
                    ~validate_state_transition(state.current_step, s)
               /\ state'.current_step # "complete"
                    => LET last == trace'[Len(trace')] IN
                       /\ last.raised = "none"
                       /\ \/ last.op = "add_error_context"
                               /\ state'.current_step = "error"
                          \/ last.op = "update_state_step"
                               /\ state'.current_step = last.new_step]_vars

\* C3 witness: add_error_context was applied to a state at complete and
\* returned a state at error.
C3_Witness ==
    \E i \in CallsOf("add_error_context") :
        /\ trace[i].arg.current_step = "complete"
        /\ Returned(i)
        /\ trace[i].ret.current_step = "error"

\* C4: a successful update_state_step returns the input state with only
\* current_step changed: every other field is equal, and a non-empty
\* error_context is not cleared.
C4_UpdateStepFrame ==
    \A i \in CallsOf("update_state_step") :
        Returned(i) =>
            /\ DOMAIN trace[i].ret = AgentStateKeys
            /\ \A k \in AgentStateKeys \ {"current_step"} :
                   trace[i].ret[k] = trace[i].arg[k]
            /\ trace[i].arg.error_context # PyNone
                   => trace[i].ret.error_context # PyNone

\* C4 witness: update_state_step succeeded on a state holding an error_context
\* and agent outputs.
C4_Witness ==
    \E i \in CallsOf("update_state_step") :
        /\ Returned(i)
        /\ trace[i].arg.error_context # PyNone
        /\ trace[i].arg.found_options # <<>>
        /\ trace[i].ret.current_step # trace[i].arg.current_step

\* the arguments create_initial_state must accept
ValidCreateArgs(i) ==
    /\ trace[i].user_query.t = "str"
    /\ trace[i].user_query.v # ""
    /\ trace[i].uploaded_data.t = "list"
    /\ Len(trace[i].uploaded_data.items) > 0
    /\ \A n \in 1..Len(trace[i].uploaded_data.items) :
           trace[i].uploaded_data.items[n] \in Documents

\* C5: for a non-empty query string and a non-empty list of Documents,
\* create_initial_state returns a state at option_finder with no error_context,
\* empty found_options, analyses and recommendations, total_documents equal to
\* the number of documents and workflow_version "1.0".
C5_CreateInitialStateResult ==
    \A i \in CallsOf("create_initial_state") :
        ValidCreateArgs(i) =>
            /\ Returned(i)
            /\ trace[i].ret.current_step = "option_finder"
            /\ trace[i].ret.error_context = PyNone
            /\ trace[i].ret.found_options = <<>>
            /\ trace[i].ret.analyses = <<>>
            /\ trace[i].ret.recommendations = <<>>
            /\ trace[i].ret.user_query = trace[i].user_query
            /\ trace[i].ret.uploaded_data = trace[i].uploaded_data
            /\ trace[i].ret.processing_metadata.total_documents
                   = Len(trace[i].uploaded_data.items)
            /\ trace[i].ret.processing_metadata.workflow_version = "1.0"

\* C5 witness: a state was created from a query and two Documents.
C5_Witness ==
    /\ Len(trace) = 1
    /\ trace[1].op = "create_initial_state"
    /\ ValidCreateArgs(1)
    /\ Len(trace[1].uploaded_data.items) = 2
    /\ state # PyNone
    /\ state.processing_metadata.total_documents = 2

\* C6: create_initial_state raises ValueError and returns no state when the
\* query is empty or no string, the data is empty or no list, or an element of
\* the list is no Document.
C6_CreateInitialStateRejects ==
    \A i \in CallsOf("create_initial_state") :
        ~ValidCreateArgs(i) =>
            /\ trace[i].raised = "ValueError"
            /\ trace[i].ret = PyNone
            /\ state = PyNone

\* C6 witness: the query was fine and the list held a Document and something
\* that is no Document, and the call raised.
C6_Witness ==
    /\ Len(trace) = 1
    /\ trace[1].op = "create_initial_state"
    /\ trace[1].user_query.t = "str" /\ trace[1].user_query.v # ""
    /\ trace[1].uploaded_data.t = "list"
    /\ Len(trace[1].uploaded_data.items) = 2
    /\ trace[1].uploaded_data.items[1] \in Documents
    /\ trace[1].uploaded_data.items[2] \notin Documents
    /\ trace[1].raised = "ValueError"

\* C7: add_error_context with a dict error_info succeeds on every state,
\* whatever its current step, and returns a state with error_context =
\* error_info, current_step = error and every other field as in the input.
C7_AddErrorContextAlwaysSucceeds ==
    \A i \in CallsOf("add_error_context") :
        trace[i].error_info.t = "dict" =>
            /\ Returned(i)
            /\ trace[i].ret.error_context = trace[i].error_info
            /\ trace[i].ret.current_step = "error"
            /\ DOMAIN trace[i].ret = AgentStateKeys
            /\ \A k \in AgentStateKeys \ {"current_step", "error_context"} :
                   trace[i].ret[k] = trace[i].arg[k]

\* C7 witness: add_error_context succeeded on a state at complete that holds
\* agent outputs.
C7_Witness ==
    \E i \in CallsOf("add_error_context") :
        /\ trace[i].arg.current_step = "complete"
        /\ trace[i].arg.found_options # <<>>
        /\ Returned(i)
        /\ state.current_step = "error"

\* the i-th call is a successful add_error_context on a state at a working step
FailedAtWorkingStep(i) ==
    /\ trace[i].op = "add_error_context"
    /\ Returned(i)
    /\ trace[i].arg.current_step \in WorkingSteps

\* C8: after add_error_context(state, e) at a working step s, the call
\* update_state_step(state, s) succeeds and yields current_step = s, and
\* error_context is still e after it and after every later successful
\* update_state_step.
C8_RecoveryKeepsErrorContext ==
    \A i \in 1..Len(trace) :
        FailedAtWorkingStep(i) =>
            \A j \in (i + 1)..Len(trace) :
                (/\ trace[i + 1].op = "update_state_step"
                 /\ trace[i + 1].new_step = trace[i].arg.current_step
                 /\ \A m \in (i + 2)..j :
                        trace[m].op = "update_state_step" /\ Returned(m))
                    => /\ Returned(i + 1)
                       /\ trace[i + 1].ret.current_step = trace[i].arg.current_step
                       /\ trace[j].ret.error_context = trace[i].error_info

\* C8 witness: a failure at a working step was followed by the recovery
\* transition to that step and by a further successful transition.
C8_Witness ==
    \E i \in 1..Len(trace) :
        /\ FailedAtWorkingStep(i)
        /\ i + 2 <= Len(trace)
        /\ trace[i + 1].op = "update_state_step"
        /\ trace[i + 1].new_step = trace[i].arg.current_step
        /\ Returned(i + 1)
        /\ trace[i + 2].op = "update_state_step"
        /\ Returned(i + 2)
        /\ state.current_step # trace[i].arg.current_step
        /\ state.error_context = trace[i].error_info

\* the steps of the linear path after option_finder
HappyPath == <<"pros_cons", "decision", "complete">>

\* the first k calls after the creation are update_state_step along the path
FollowsHappyPath(k) ==
    /\ Len(trace) >= 1 + k
    /\ trace[1].op = "create_initial_state"
    /\ Returned(1)
    /\ \A m \in 1..k :
          /\ trace[1 + m].op = "update_state_step"
          /\ trace[1 + m].new_step = HappyPath[m]

\* C9: from a freshly created state, update_state_step to pros_cons, then
\* decision, then complete all succeed, the last state is at complete, and
\* user_query and uploaded_data are those given at creation.
C9_HappyPathSucceeds ==
    \A k \in 1..Len(HappyPath) :
        FollowsHappyPath(k) =>
            /\ Returned(1 + k)
            /\ trace[1 + k].ret.current_step = HappyPath[k]
            /\ trace[1 + k].ret.user_query = trace[1].user_query
            /\ trace[1 + k].ret.uploaded_data = trace[1].uploaded_data

\* C9 witness: the three transitions were made and the state is at complete.
C9_Witness ==
    /\ Len(trace) = 4
    /\ FollowsHappyPath(3)
    /\ state.current_step = "complete"

\* every collaborator call of the run returned
AllStagesSucceeded == \A i \in 1..Len(collab) : collab[i].raised = "none"

\* C10: a run of the workflow ends by returning a state (no collaborator
\* exception leaves workflow.invoke) whose current_step is complete when
\* every stage succeeded and error otherwise.
C10_RunEndsCompleteOrError ==
    pc \in {"END", "raised"} =>
        /\ pc = "END"
        /\ "current_step" \in DOMAIN wf
        /\ wf.current_step = IF AllStagesSucceeded THEN "complete" ELSE "error"

\* the run reached the decision node and the node has run
DecisionRan ==
    /\ pc \in {"END", "raised"}
    /\ "analyses" \in DOMAIN wf
    /\ Len(collab) = Len(wf.candidates) + 2

\* the last collaborator call failed
LastCallFailed == Len(collab) > 0 /\ collab[Len(collab)].raised # "none"

\* C11: no stage of a run, failing or not, loses what the stages before it
\* produced: once find_options has stored the candidates, pros_cons and
\* decision return a state (they do not raise) that still holds them, and
\* decision returns a state that still holds the analyses of pros_cons.
C11_IntermediateResultsKept ==
    [][/\ pc = "pros_cons" =>
            /\ pc' = "decision"
            /\ "candidates" \in DOMAIN wf'
            /\ wf'.candidates = wf.candidates
       /\ pc = "decision" =>
            /\ pc' = "END"
            /\ {"candidates", "analyses"} \subseteq DOMAIN wf'
            /\ wf'.candidates = wf.candidates
            /\ wf'.analyses = wf.analyses]_vars

\* C11 witness: a run with two candidates in which an analysis call and the
\* decision call failed has ended, and its state holds both candidates and
\* both analyses.
C11_Witness ==
    /\ pc = "END"
    /\ LastCallFailed
    /\ collab[2].raised # "none"
    /\ Len(wf.candidates) = 2
    /\ Len(wf.analyses) = 2

\* C12: when the retrieval collaborator fails, the option-finding stage does
\* not raise; it returns a state at the error step with an error_context, and
\* the fields the state had before (the query) are kept.
C12_RetrievalFailureRecorded ==
    (Len(collab) >= 1 /\ collab[1].raised # "none") =>
        /\ pc # "raised"
        /\ "query" \in DOMAIN wf
        /\ "current_step" \in DOMAIN wf
        /\ wf.current_step = "error"
        /\ "error_context" \in DOMAIN wf

\* C13: after the pros/cons stage, analyses has one entry per candidate in
\* candidate order; the entry of an option whose LLM call failed carries the
\* failure message as its analysis text, the others carry the LLM's result.
C13_PerOptionFailureIsolated ==
    (pc \in {"decision", "END"}) =>
        /\ "analyses" \in DOMAIN wf
        /\ Len(wf.analyses) = Len(wf.candidates)
        /\ \A i \in 1..Len(wf.candidates) :
            /\ wf.analyses[i].option = wf.candidates[i].page_content
            /\ wf.analyses[i].analysis =
                   IF collab[1 + i].raised = "none"
                   THEN GenerateOk(ProsConsPrompt(i, wf.candidates[i])).val
                   ELSE <<"Error analyzing option: ", GenerateFail.msg>>

\* C13 witness: of two candidates the first one's analysis failed and the
\* second one's succeeded.
C13_Witness ==
    /\ pc = "decision"
    /\ Len(wf.candidates) = 2
    /\ collab[2].raised # "none"
    /\ collab[3].raised = "none"
    /\ Len(wf.analyses) = 2

MismatchedIds ==
    /\ built.cls = "Recommendation"
    /\ IsInstance(built.args.option, "Option")
    /\ IsInstance(built.args.analysis, "Analysis")
    /\ built.args.option.id # built.args.analysis.option_id

\* score, reasoning and rank of the last Recommendation construction are valid
OtherFieldsValid ==
    /\ built.args.score.v >= 0
    /\ built.args.reasoning.t = "str" /\ built.args.reasoning.v # ""
    /\ built.args.rank.v >= 1

ConsistencyMessage == <<"Option ID and Analysis option_id must match">>

\* C15 as stated: constructing a Recommendation whose option.id differs from
\* analysis.option_id fails with the consistency error, whatever the validity
\* of score, reasoning and rank.
C15_MismatchAlwaysConsistencyError ==
    MismatchedIds =>
        /\ built.out.raised = "ValueError"
        /\ built.out.msg = ConsistencyMessage

\* C15 amended: constructing a Recommendation whose option.id differs from
\* analysis.option_id always fails with a ValueError, so none is ever
\* constructed; the error is the consistency error when score, reasoning and
\* rank are valid, and otherwise the error of the first invalid one of them.
C15_MismatchAlwaysRejected ==
    MismatchedIds =>
        /\ built.out.raised = "ValueError"
        /\ OtherFieldsValid => built.out.msg = ConsistencyMessage
        /\ ~OtherFieldsValid =>
               built.out.msg \in {<<"Score must be non-negative">>,
                                  <<"Reasoning must be a non-empty string">>,
                                  <<"Rank must be a positive integer">>}

\* C15 witness: ids differ, the other fields are valid, and the construction
\* raised the consistency error.
C15_Witness ==
    /\ MismatchedIds
    /\ OtherFieldsValid
    /\ built.out.raised = "ValueError"
    /\ built.out.msg = ConsistencyMessage

\* the last construction was of an Option whose id, title and data are valid
OptionOtherwiseValid ==
    /\ built.cls = "Option"
    /\ built.args.id.t = "str" /\ built.args.id.v # ""
    /\ built.args.title.t = "str" /\ built.args.title.v # ""
    /\ built.args.data.t = "dict"

\* C16: with otherwise valid fields, Option construction succeeds exactly when
\* 0.0 <= similarity_score <= 1.0 (scores in tenths: 0 to 10), and a score
\* outside fails with the similarity-score error.
C16_SimilarityRange ==
    OptionOtherwiseValid =>
        IF 0 <= built.args.similarity_score.v /\ built.args.similarity_score.v <= 10
        THEN /\ built.out.raised = "none"
             /\ built.out.val.similarity_score = built.args.similarity_score
        ELSE /\ built.out.raised = "ValueError"
             /\ built.out.msg = <<"Similarity score must be between 0.0 and 1.0">>

\* C16 witness: an Option with similarity_score 1.0 was constructed.
C16_Witness ==
    /\ OptionOtherwiseValid
    /\ built.args.similarity_score.v = 10
    /\ built.out.raised = "none"

\* the last construction was of an Analysis and succeeded
AnalysisBuilt == built.cls = "Analysis" /\ built.out.raised = "none"

\* what C17 requires of every accepted Analysis apart from its pros
AnalysisRestValid ==
    /\ built.args.option_id.t = "str" /\ built.args.option_id.v # ""
    /\ built.args.pros.t = "list"
    /\ built.args.cons.t = "list"
    /\ \A i \in 1..Len(built.args.cons.items) : built.args.cons.items[i].t = "str"
    /\ built.args.summary.t = "str" /\ built.args.summary.v # ""
    /\ 0 <= built.args.confidence.v /\ built.args.confidence.v <= 100

\* C17 as stated: Analysis construction succeeds only if option_id is a
\* non-empty string, every pro is a non-empty string, cons holds only strings,
\* summary is a non-empty string and confidence is in [0.0, 10.0].
C17_AnalysisProsNonEmpty ==
    AnalysisBuilt =>
        /\ AnalysisRestValid
        /\ \A i \in 1..Len(built.args.pros.items) :
               /\ built.args.pros.items[i].t = "str"
               /\ built.args.pros.items[i].v # ""

\* C17 amended: Analysis construction succeeds only if option_id is a
\* non-empty string, pros and cons are lists holding only strings (an empty
\* string is accepted as a pro), summary is a non-empty string and confidence
\* is in [0.0, 10.0].
C17_AnalysisValidated ==
    AnalysisBuilt =>
        /\ AnalysisRestValid
        /\ \A i \in 1..Len(built.args.pros.items) :
               built.args.pros.items[i].t = "str"

\* C17 witness: an Analysis one of whose pros is the empty string was
\* constructed.
C17_Witness ==
    /\ AnalysisBuilt
    /\ \E i \in 1..Len(built.args.pros.items) : built.args.pros.items[i] = PyStr("")

\* the last call of the session
LastCall == trace[Len(trace)]

\* C18: update_state_step with a step outside the five step names raises
\* ValueError naming the step, and the state passed in keeps its current_step
\* and every other field.
C18_UnknownStepRaises ==
    (/\ Len(trace) > 0
     /\ LastCall.op = "update_state_step"
     /\ LastCall.new_step \notin StepNames)
        => /\ LastCall.raised = "ValueError"
           /\ LastCall.msg = <<"Invalid step: ", LastCall.new_step>>
           /\ arg_state = LastCall.arg
           /\ state = LastCall.arg

\* C18 witness: "invalid_step" was refused on a state at pros_cons that holds
\* an error_context.
C18_Witness ==
    /\ Len(trace) > 0
    /\ LastCall.op = "update_state_step"
    /\ LastCall.new_step = "invalid_step"
    /\ LastCall.raised = "ValueError"
    /\ state.current_step = "pros_cons"
    /\ state.error_context # PyNone

\* the state holds an error_context
HasErrorContext == state # PyNone /\ state.error_context # PyNone

\* C19 as stated: a non-empty error_context names the failing stage, the
\* failure cause and a timestamp.
C19_ErrorContextStructured ==
    HasErrorContext =>
        /\ {"step", "stage"} \cap DOMAIN state.error_context.v # {}
        /\ {"error", "message", "cause"} \cap DOMAIN state.error_context.v # {}
        /\ "timestamp" \in DOMAIN state.error_context.v

\* C19 amended: a non-empty error_context is exactly the dict given to the
\* latest successful add_error_context, whatever its keys: no stage name,
\* cause or timestamp is required or added.
C19_ErrorContextAsGiven ==
    HasErrorContext =>
        \E i \in CallsOf("add_error_context") :
            /\ Returned(i)
            /\ \A j \in CallsOf("add_error_context") : Returned(j) => j <= i
            /\ state.error_context = trace[i].error_info

\* C19 witness: a state at error holds an error_context without a timestamp.
C19_Witness ==
    /\ HasErrorContext
    /\ state.current_step = "error"
    /\ "timestamp" \notin DOMAIN state.error_context.v

\* the i-th call returned a state at step s
Entered(i, s) == Returned(i) /\ trace[i].ret.current_step = s

\* C20 as stated: along transitions the validator permits from option_finder,
\* complete is entered only from decision and only after pros_cons was visited.
C20_NoStageSkipped ==
    \A i \in 2..Len(trace) :
        Entered(i, "complete") =>
            /\ trace[i].arg.current_step = "decision"
            /\ \E j \in 2..(i - 1) : Entered(j, "pros_cons")

\* C20 amended: along transitions the validator permits from option_finder,
\* complete is entered only from decision, and decision only from pros_cons or
\* from error; recovery from error straight into decision reaches complete
\* without pros_cons ever being visited.
C20_CompleteOnlyFromDecision ==
    \A i \in 2..Len(trace) :
        /\ Entered(i, "complete") => trace[i].arg.current_step = "decision"
        /\ Entered(i, "decision") => trace[i].arg.current_step \in {"pros_cons", "error"}

\* C20 witness: option_finder, error, decision, complete.
C20_Witness ==
    /\ Len(trace) = 4
    /\ Entered(2, "error")
    /\ Entered(3, "decision")
    /\ Entered(4, "complete")
    /\ trace[2].arg.current_step = "option_finder"

\* the stages in the order build_workflow chains them
StageOrder == <<"find_options", "pros_cons", "decision">>

\* the calls of llm.generate made so far, oldest first
LLMCalls == SelectSeq(collab, LAMBDA c : c.call = "generate")

\* C21: one invocation runs find_options, pros_cons, decision in that order,
\* never a stage twice, whatever the stages return: the stages run so far are
\* a prefix of the order, a stage that returned is followed by the next one,
\* and the invocation ends after exactly the three.
C21_StagesOnceInOrder ==
    /\ Len(ran) <= Len(StageOrder)
    /\ \A i \in 1..Len(ran) : ran[i].node = StageOrder[i]
    /\ (Len(ran) > 0 /\ ran[Len(ran)].raised = "none") =>
            pc = IF Len(ran) < Len(StageOrder) THEN StageOrder[Len(ran) + 1] ELSE "END"
    /\ pc = "END" => Len(ran) = Len(StageOrder)

\* C21 witness: an invocation ended after the three stages although every
\* LLM call of it failed.
C21_Witness ==
    /\ pc = "END"
    /\ Len(ran) = 3
    /\ Len(LLMCalls) >= 2
    /\ \A i \in 1..Len(LLMCalls) : LLMCalls[i].raised # "none"

\* the i-th stage run failed: it raised, or it is a pros_cons run none of
\* whose analyses succeeded
StageFailed(i) ==
    \/ ran[i].raised # "none"
    \/ /\ ran[i].node = "pros_cons"
       /\ ran[i].ret.analyses # <<>>
       /\ \A k \in 1..Len(ran[i].ret.analyses) :
              ran[i].ret.analyses[k].analysis[1] = "Error analyzing option: "

C23_OneLLMCallPerCandidatePlusOne ==
    /\ pc = "decision" => Len(LLMCalls) = Len(wf.candidates)
    /\ pc \in {"decision", "END"} =>
           \A i \in 1..Len(wf.candidates) :
               /\ i <= Len(LLMCalls)
               /\ LLMCalls[i].arg = ProsConsPrompt(i, wf.candidates[i])
    /\ pc = "END" =>
           /\ Len(LLMCalls) = Len(wf.candidates) + 1
           /\ LLMCalls[Len(LLMCalls)].arg = DecisionPrompt(wf.analyses)

\* C23 witness: a run with two candidates ended after three LLM calls, the
\* first of which failed.
C23_Witness ==
    /\ pc = "END"
    /\ Len(wf.candidates) = 2
    /\ Len(LLMCalls) = 3
    /\ LLMCalls[1].raised # "none"
    /\ LLMCalls[2].raised = "none"

\* C25: the agents do not modify the state they receive: after every call the
\* dict passed in holds the keys and values it held before.
C25_AgentsLeaveInputUnchanged ==
    \A i \in 1..Len(ran) : ran[i].after = ran[i].before

\* the instance would pass the validation of its class as it is now
SatisfiesInvariants(x) ==
    CASE x.cls = "Option" ->
            Option(x.id, x.title, x.description, x.data, x.similarity_score).raised = "none"
      [] x.cls = "Analysis" ->
            Analysis(x.option_id, x.pros, x.cons, x.summary, x.confidence).raised = "none"
      [] x.cls = "Recommendation" ->
            Recommendation(x.option, x.analysis, x.score, x.reasoning, x.rank).raised = "none"

\* C24: every Option, Analysis and Recommendation instance observable at any
\* time satisfies its construction invariants; no operation on an existing
\* instance makes one false.
C24_InstancesAlwaysValid ==
    (built.cls # "none" /\ built.out.raised = "none") => SatisfiesInvariants(built.out.val)

\* the calls of the session that take a state and return one
StateCalls == CallsOf("update_state_step") \union CallsOf("add_error_context")

\* C27: after any sequence of create_initial_state, update_state_step and
\* add_error_context calls, raising ones included, every state produced has a
\* current_step among the five step names.
C27_CurrentStepAlwaysNamed ==
    /\ state # PyNone => state.current_step \in StepNames
    /\ arg_state # PyNone => arg_state.current_step \in StepNames
    /\ \A i \in StateCalls \union CallsOf("create_initial_state") :
           Returned(i) => trace[i].ret.current_step \in StepNames

\* C27 witness: after an update_state_step that raised and an
\* add_error_context that raised, the state was moved to complete.
C27_Witness ==
    /\ \E i \in CallsOf("update_state_step") : ~Returned(i)
    /\ \E i \in CallsOf("add_error_context") : ~Returned(i)
    /\ state.current_step = "complete"

\* C28: update_state_step and add_error_context never modify the state passed
\* to them: after the call, returned or raised, the input is what it was
\* before, and the change is only in the returned state.
C28_InputStateUntouched ==
    (Len(trace) > 0 /\ Len(trace) \in StateCalls) =>
        /\ arg_state = LastCall.arg
        /\ arg_state.current_step = LastCall.arg.current_step
        /\ arg_state.error_context = LastCall.arg.error_context
        /\ Returned(Len(trace)) => state = LastCall.ret
        /\ ~Returned(Len(trace)) => state = LastCall.arg

\* C28 witness: add_error_context returned a state at error holding the
\* error_info while the state passed in is still at pros_cons without an
\* error_context.
C28_Witness ==
    /\ Len(trace) > 0
    /\ LastCall.op = "add_error_context"
    /\ Returned(Len(trace))
    /\ arg_state.current_step = "pros_cons"
    /\ arg_state.error_context = PyNone
    /\ state.current_step = "error"
    /\ state.error_context = LastCall.error_info

\* the steps the validator permits after step s
Successors(s) == {n \in StepNames : validate_state_transition(s, n)}

RECURSIVE ReachableIn(_, _)
\* the steps reachable from the steps S by at most k permitted transitions
ReachableIn(S, k) ==
    IF k = 0 THEN S
    ELSE ReachableIn(S \union UNION {Successors(s) : s \in S}, k - 1)

\* C29: in the table of validate_state_transition, complete is reachable from
\* each of option_finder, pros_cons, decision and error, and complete is the
\* only step without an outgoing transition.
C29_CompleteReachableOnlyDeadEnd ==
    (vt.called /\ vt.current_step \in StepNames) =>
        /\ Successors(vt.current_step) = {} <=> vt.current_step = "complete"
        /\ "complete" \in ReachableIn({vt.current_step}, Cardinality(StepNames))

\* C29 witness: the validator refused error -> complete, and complete is
\* reachable from error by way of decision.
C29_Witness ==
    /\ vt.called
    /\ vt.current_step = "error"
    /\ vt.next_step = "complete"
    /\ ~vt.result
    /\ "decision" \in Successors("error")
    /\ "complete" \in Successors("decision")

\* C30: ProsConsAgent replaces the analyses: a run on a state that already
\* holds analyses returns exactly one entry per current candidate, in
\* candidate order, so repeated runs accumulate nothing.
C30_AnalysesReplaced ==
    \A i \in 1..Len(ran) :
        (ran[i].node = "pros_cons" /\ ran[i].raised = "none") =>
            /\ Len(ran[i].ret.analyses) = Len(ran[i].ret.candidates)
            /\ \A k \in 1..Len(ran[i].ret.candidates) :
                   ran[i].ret.analyses[k].option = ran[i].ret.candidates[k].page_content

\* C30 witness: the stage ran on a state holding two analyses of an earlier
\* run and one candidate, and returned one analysis.
C30_Witness ==
    \E i \in 1..Len(ran) :
        /\ ran[i].node = "pros_cons"
        /\ "analyses" \in DOMAIN ran[i].before
        /\ Len(ran[i].before.analyses) = 2
        /\ Len(ran[i].before.candidates) = 1
        /\ Len(ran[i].ret.analyses) = 1

\* pattern pat matches somewhere in s
MatchesIn(pat, s) == \E i \in 1..Len(s) : MatchAt(pat, s, i) # 0

\* C26: the result of sanitize_text_content contains no match of any
\* DANGEROUS_PATTERNS entry and no control character below 32 other than
\* newline, tab and carriage return, also when the input interleaves control
\* characters with the patterns.
C26_SanitizedIsClean ==
    (san.called /\ san.result.raised = "none") =>
        /\ \A n \in 1..Len(DANGEROUS_PATTERNS) :
               ~MatchesIn(DANGEROUS_PATTERNS[n], san.result.val.chars)
        /\ \A k \in 1..Len(san.result.val.chars) :
               san.result.val.chars[k] >= 32 \/ san.result.val.chars[k] \in {9, 10, 13}

====
